---- MODULE Spec2Model ----
(***************************************************************************)
(* Page analysis of nasminspy/lucytech: realAnalyzePage / AnalyzePage,     *)
(* the DOM walk, detectHTMLVersion and the concurrent link checker         *)
(* countLinks, in the two versions the repository holds                    *)
(* (src/unnamed/part_002 and src/parser/analyzer.go).                      *)
(*                                                                         *)
(* Strings are TLA+ strings; the Go string functions the code calls are    *)
(* operators over them (Len, SubSeq and \o work on strings in TLC).        *)
(***************************************************************************)
EXTENDS Integers, Sequences, FiniteSets, Bags, TLC

(***************************************************************************)
(* Bounds of the model.                                                    *)
(***************************************************************************)
\* longest raw-link sequence of the enumerated link documents
MaxLinks == 3
\* the same, for the specification with fairness
MaxLiveLinks == 2

(***************************************************************************)
(* Program constants.                                                      *)
(***************************************************************************)
\* const maxConcurrentRequests = 10 (part_002:152)
maxConcurrentRequests == 10

(***************************************************************************)
(* A local variable: F(v) is the rest of the function body, with the       *)
(* variable bound to the value v it was assigned.                          *)
(***************************************************************************)
With(v, F(_)) == F(v)

(***************************************************************************)
(* package strings                                                         *)
(***************************************************************************)
CharAt(s, i) == SubSeq(s, i, i)

HasPrefix(s, p) == Len(s) >= Len(p) /\ SubSeq(s, 1, Len(p)) = p

\* strings.Index, 1-based; 0 when sub does not occur
Index(s, sub) ==
    LET hits == { i \in 1..(Len(s) - Len(sub) + 1) : SubSeq(s, i, i + Len(sub) - 1) = sub }
    IN  IF hits = {} THEN 0 ELSE CHOOSE i \in hits : \A j \in hits : i <= j

LastIndex(s, sub) ==
    LET hits == { i \in 1..(Len(s) - Len(sub) + 1) : SubSeq(s, i, i + Len(sub) - 1) = sub }
    IN  IF hits = {} THEN 0 ELSE CHOOSE i \in hits : \A j \in hits : i >= j

Contains(s, sub) == Index(s, sub) > 0

\* strings.Cut: <<before, after, found>>
Cut(s, sep) ==
    With(Index(s, sep), LAMBDA i :
        IF i = 0 THEN <<s, "", FALSE>>
        ELSE <<SubSeq(s, 1, i - 1), SubSeq(s, i + Len(sep), Len(s)), TRUE>>)

LowerLetters == "abcdefghijklmnopqrstuvwxyz"
UpperLetters == "ABCDEFGHIJKLMNOPQRSTUVWXYZ"

LetterSet == { CharAt(LowerLetters, i) : i \in 1..26 } \cup { CharAt(UpperLetters, i) : i \in 1..26 }
UpperSet == { CharAt(UpperLetters, i) : i \in 1..26 }
LowerSet == { CharAt(LowerLetters, i) : i \in 1..26 }
DigitSet == {"0", "1", "2", "3", "4", "5", "6", "7", "8", "9"}
HexSet == DigitSet \cup {"a", "b", "c", "d", "e", "f", "A", "B", "C", "D", "E", "F"}

IsLetter(c) == c \in LetterSet

LowerChar(c) ==
    IF c \in UpperSet THEN CharAt(LowerLetters, Index(UpperLetters, c)) ELSE c

UpperChar(c) ==
    IF c \in LowerSet THEN CharAt(UpperLetters, Index(LowerLetters, c)) ELSE c

RECURSIVE ToLower(_)
ToLower(s) == IF s = "" THEN "" ELSE LowerChar(Head(s)) \o ToLower(Tail(s))

RECURSIVE ToUpper(_)
ToUpper(s) == IF s = "" THEN "" ELSE UpperChar(Head(s)) \o ToUpper(Tail(s))

(***************************************************************************)
(* package net/url, for raw strings without '?', '@' and '[' (the hrefs    *)
(* and page URLs of the model have none): Parse, ParseRequestURI, IsAbs,   *)
(* ResolveReference and String.                                            *)
(***************************************************************************)
NoURL == [err |-> TRUE, Scheme |-> "", Opaque |-> "", Host |-> "", Path |-> "",
          Fragment |-> "", OmitHost |-> FALSE]

\* url.getScheme: <<scheme, rest, err>>
RECURSIVE getSchemeAt(_, _)
getSchemeAt(rawURL, i) ==
    IF i > Len(rawURL) THEN <<"", rawURL, FALSE>>
    ELSE LET c == CharAt(rawURL, i)
         IN  IF IsLetter(c) THEN getSchemeAt(rawURL, i + 1)
             ELSE IF c \in DigitSet \/ c \in {"+", "-", "."}
                  THEN IF i = 1 THEN <<"", rawURL, FALSE>> ELSE getSchemeAt(rawURL, i + 1)
             ELSE IF c = ":"
                  THEN IF i = 1 THEN <<"", "", TRUE>>
                       ELSE <<SubSeq(rawURL, 1, i - 1), SubSeq(rawURL, i + 1, Len(rawURL)), FALSE>>
             ELSE <<"", rawURL, FALSE>>

getScheme(rawURL) == getSchemeAt(rawURL, 1)

IsHex(c) == c \in HexSet

\* url.unescape's validation pass: every '%' is followed by two hex digits
RECURSIVE validEscapes(_)
validEscapes(s) ==
    With(Index(s, "%"), LAMBDA i :
        IF i = 0 THEN TRUE
        ELSE /\ Len(s) >= i + 2
             /\ IsHex(CharAt(s, i + 1))
             /\ IsHex(CharAt(s, i + 2))
             /\ validEscapes(SubSeq(s, i + 3, Len(s))))

\* url.validOptionalPort: "" or ':' followed by digits only
validOptionalPort(port) ==
    port = "" \/ (Head(port) = ":" /\ \A i \in 2..Len(port) : CharAt(port, i) \in DigitSet)

\* url.parseHost's validation: what follows the last ':' is a port, and the
\* host holds no space and no bad escape
validHost(h) ==
    /\ With(LastIndex(h, ":"), LAMBDA i : i = 0 \/ validOptionalPort(SubSeq(h, i, Len(h))))
    /\ ~Contains(h, " ")
    /\ validEscapes(h)

\* url.parse(rawURL, viaRequest), on the part before '#'
parse(rawURL, viaRequest) ==
    IF rawURL = "" /\ viaRequest THEN NoURL
    ELSE
    With(getScheme(rawURL), LAMBDA gs :
    With(ToLower(gs[1]), LAMBDA scheme :
    With(gs[2], LAMBDA rest :
    With(HasPrefix(rest, "/"), LAMBDA rooted :
        IF gs[3] THEN NoURL
        ELSE IF ~rooted /\ scheme # ""
             THEN [NoURL EXCEPT !.err = FALSE, !.Scheme = scheme, !.Opaque = rest]
        ELSE IF ~rooted /\ viaRequest THEN NoURL
        ELSE IF ~rooted /\ Contains(Cut(rest, "/")[1], ":") THEN NoURL
        ELSE IF (scheme # "" \/ (~viaRequest /\ ~HasPrefix(rest, "///"))) /\ HasPrefix(rest, "//")
             THEN With(SubSeq(rest, 3, Len(rest)), LAMBDA a0 :
                  With(Index(a0, "/"), LAMBDA i :
                  With(IF i > 0 THEN SubSeq(a0, 1, i - 1) ELSE a0, LAMBDA auth :
                  With(IF i > 0 THEN SubSeq(a0, i, Len(a0)) ELSE "", LAMBDA path :
                      IF ~validHost(auth) \/ ~validEscapes(path) THEN NoURL
                      ELSE [NoURL EXCEPT !.err = FALSE, !.Scheme = scheme,
                                         !.Host = auth, !.Path = path]))))
        ELSE IF ~validEscapes(rest) THEN NoURL
        ELSE [NoURL EXCEPT !.err = FALSE, !.Scheme = scheme, !.Path = rest,
                           !.OmitHost = (scheme # "" /\ rooted)]))))

\* url.Parse: the fragment is cut off first and set afterwards
Parse(rawURL) ==
    With(Cut(rawURL, "#"), LAMBDA c :
    With(parse(c[1], FALSE), LAMBDA u :
        IF u.err THEN NoURL
        ELSE IF ~validEscapes(c[2]) THEN NoURL
        ELSE [u EXCEPT !.Fragment = c[2]]))

\* url.ParseRequestURI: no fragment handling, viaRequest = true
ParseRequestURI(rawURL) == parse(rawURL, TRUE)

IsAbs(u) == u.Scheme # ""

\* url.resolvePath's loop over the elements of the joined path
RECURSIVE resolveElems(_, _, _)
resolveElems(remaining, dst, first) ==
    With(Cut(remaining, "/"), LAMBDA c :
    With(c[1], LAMBDA elem :
    With(SubSeq(dst, 2, Len(dst)), LAMBDA str :
    With(LastIndex(str, "/"), LAMBDA idx :
    With(IF elem = "." THEN dst
         ELSE IF elem = ".."
              THEN IF idx = 0 THEN "/" ELSE "/" \o SubSeq(str, 1, idx - 1)
         ELSE (IF first THEN dst ELSE dst \o "/") \o elem, LAMBDA dst1 :
    With(IF elem = "." THEN FALSE
         ELSE IF elem = ".." THEN (IF idx = 0 THEN TRUE ELSE first)
         ELSE FALSE, LAMBDA first1 :
        IF c[3] THEN resolveElems(c[2], dst1, first1)
        ELSE IF elem = "." \/ elem = ".." THEN dst1 \o "/" ELSE dst1))))))

resolvePath(base, ref) ==
    With(IF ref = "" THEN base
         ELSE IF Head(ref) # "/" THEN SubSeq(base, 1, LastIndex(base, "/")) \o ref
         ELSE ref, LAMBDA full :
        IF full = "" THEN ""
        ELSE With(resolveElems(full, "/", TRUE), LAMBDA r :
                 IF Len(r) > 1 /\ CharAt(r, 2) = "/" THEN Tail(r) ELSE r))

\* (*URL).ResolveReference
ResolveReference(base, ref) ==
    LET url == IF ref.Scheme = "" THEN [ref EXCEPT !.Scheme = base.Scheme] ELSE ref
    IN  IF ref.Scheme # "" \/ ref.Host # ""
        THEN [url EXCEPT !.Path = resolvePath(ref.Path, "")]
        ELSE IF ref.Opaque # "" THEN [url EXCEPT !.Host = "", !.Path = ""]
        ELSE [url EXCEPT !.Host = base.Host,
                         !.Path = resolvePath(base.Path, ref.Path),
                         !.Fragment = IF ref.Path = "" /\ ref.Fragment = ""
                                      THEN base.Fragment ELSE ref.Fragment]

\* (*URL).String
String(u) ==
    With(IF u.Scheme # "" THEN u.Scheme \o ":" ELSE "", LAMBDA s1 :
    With(IF u.Opaque # "" THEN s1 \o u.Opaque
         ELSE With(IF (u.Scheme # "" \/ u.Host # "")
                      /\ ~(u.OmitHost /\ u.Host = "")
                      /\ (u.Host # "" \/ u.Path # "")
                   THEN s1 \o "//" \o u.Host ELSE s1, LAMBDA a :
              With(IF u.Path # "" /\ Head(u.Path) # "/" /\ u.Host # ""
                   THEN a \o "/" ELSE a, LAMBDA b :
              With(IF b = "" /\ Contains(Cut(u.Path, "/")[1], ":")
                   THEN "./" ELSE b, LAMBDA d :
                  d \o u.Path))), LAMBDA s2 :
        IF u.Fragment # "" THEN s2 \o "#" \o u.Fragment ELSE s2))

(***************************************************************************)
(* golang.org/x/net/html: the parsed document is a tree of nodes           *)
(* [Type, Data, Attr, Kids]; Kids is the FirstChild/NextSibling chain.     *)
(***************************************************************************)
Node(type, data, attr, kids) == [Type |-> type, Data |-> data, Attr |-> attr, Kids |-> kids]
Attribute(k, v) == [Key |-> k, Val |-> v]
El(tag, attr, kids) == Node("Element", tag, attr, kids)
Txt(s) == Node("Text", s, <<>>, <<>>)
DoctypeNode(name) == Node("Doctype", name, <<>>, <<>>)
DocumentNode(kids) == Node("Document", "", <<>>, kids)

RECURSIVE Flatten(_)
Flatten(ss) == IF ss = <<>> THEN <<>> ELSE Head(ss) \o Flatten(Tail(ss))

\* the order in which f visits the nodes: n, then each child subtree in turn
RECURSIVE Preorder(_)
Preorder(n) == <<n>> \o Flatten([i \in 1..Len(n.Kids) |-> Preorder(n.Kids[i])])

(***************************************************************************)
(* AnalysisResult and the walker f of realAnalyzePage / AnalyzePage.       *)
(***************************************************************************)
EmptyMap == [k \in {} |-> 0]

\* &AnalysisResult{Headings: make(map[string]int)}
NewResult == [HTMLVersion |-> "", Title |-> "", Headings |-> EmptyMap,
              InternalLinks |-> 0, ExternalLinks |-> 0, InaccessibleLinks |-> 0,
              LoginForm |-> FALSE]

\* m[k]++ on a Go map: a missing key reads as 0
MapInc(m, k) == IF k \in DOMAIN m THEN [m EXCEPT ![k] = @ + 1] ELSE m @@ (k :> 1)

\* case "title": result.Title = n.FirstChild.Data when there is a first child
visitTitle(r, n) == IF n.Kids # <<>> THEN [r EXCEPT !.Title = n.Kids[1].Data] ELSE r

\* faulty variant: the flag is assigned at every input, not only set
visitInput_Assign(r, n) ==
    [r EXCEPT !.LoginForm =
        \E i \in 1..Len(n.Attr) : n.Attr[i].Key = "type" /\ n.Attr[i].Val = "password"]

\* case "input": any attribute (type, password) sets LoginForm
visitInput(r, n) ==
    IF \E i \in 1..Len(n.Attr) : n.Attr[i].Key = "type" /\ n.Attr[i].Val = "password"
    THEN [r EXCEPT !.LoginForm = TRUE] ELSE r

\* case "a": every href attribute value is appended, in order
visitAnchor(n) ==
    LET RECURSIVE hrefs(_)
        hrefs(as) == IF as = <<>> THEN <<>>
                     ELSE (IF Head(as).Key = "href" THEN <<Head(as).Val>> ELSE <<>>)
                          \o hrefs(Tail(as))
    IN  hrefs(n.Attr)

\* faulty variant: every tag that starts with "h" is taken for a heading
isHeading_PrefixOnly(tag) == HasPrefix(tag, "h")

\* default: "h" + one digit 1..6 increments Headings[ToUpper(tag)]
isHeading(tag) ==
    HasPrefix(tag, "h") /\ Len(tag) = 2 /\ CharAt(tag, 2) \in {"1", "2", "3", "4", "5", "6"}

visitHeading(r, n) ==
    IF isHeading(n.Data) THEN [r EXCEPT !.Headings = MapInc(@, ToUpper(n.Data))] ELSE r

\* one call of f on node n, before it recurses: <<result, links>>
visit(r, ls, n) ==
    IF n.Type # "Element" THEN <<r, ls>>
    ELSE IF n.Data = "title" THEN <<visitTitle(r, n), ls>>
    ELSE IF n.Data = "input" THEN <<visitInput(r, n), ls>>
    ELSE IF n.Data = "a" THEN <<r, ls \o visitAnchor(n)>>
    ELSE <<visitHeading(r, n), ls>>

(***************************************************************************)
(* detectHTMLVersion, in both versions.                                    *)
(***************************************************************************)
versionOf(doctype) ==
    IF Contains(doctype, "html 4.01") THEN "HTML 4.01"
    ELSE IF Contains(doctype, "xhtml") THEN "XHTML"
    ELSE IF Contains(doctype, "html") THEN "HTML 5"
    ELSE "Unknown"

\* the loop over a sibling chain: the first doctype node decides
RECURSIVE scanDoctype(_)
scanDoctype(chain) ==
    IF chain = <<>> THEN "Unknown"
    ELSE IF Head(chain).Type = "Doctype" THEN versionOf(ToLower(Head(chain).Data))
    ELSE scanDoctype(Tail(chain))

\* part_002: for c := doc.FirstChild; c != nil; c = c.NextSibling
detectHTMLVersion_part002(d) == scanDoctype(d.Kids)

\* analyzer.go: for c := n; c != nil; c = c.NextSibling, called with the
\* document root, which has no sibling
detectHTMLVersion_analyzer(d) == scanDoctype(<<d>>)

detectHTMLVersion(v, d) ==
    IF v = "part_002" THEN detectHTMLVersion_part002(d) ELSE detectHTMLVersion_analyzer(d)

(***************************************************************************)
(* The network, as the analysis sees it.  The page fetch may fail, or      *)
(* answer with any status of GetStatuses; the HEAD probes are answered by  *)
(* a deterministic oracle over the probed URL, as the mock transport of    *)
(* TestRealAnalyzePage does.                                               *)
(***************************************************************************)
GetStatuses == {200, 400, 404}

\* http.StatusText
StatusText(code) ==
    IF code = 200 THEN "OK"
    ELSE IF code = 400 THEN "Bad Request"
    ELSE IF code = 404 THEN "Not Found"
    ELSE ""

\* http.NewRequest(http.MethodHead, link, nil) fails when link does not parse
NewRequestFails(link) == Parse(link).err

\* httpClient.Do(req): [err, StatusCode].  No response for a scheme other
\* than http/https, for an empty host and for the host that is down.
headOracle(link) ==
    With(Parse(link), LAMBDA u :
        IF u.Scheme \notin {"http", "https"} \/ u.Host = "" \/ u.Host = "down.test"
        THEN [err |-> TRUE, StatusCode |-> 0]
        ELSE IF u.Host = "external.com" \/ u.Path = "/missing"
             THEN [err |-> FALSE, StatusCode |-> 404]
        ELSE IF u.Path = "/bad" THEN [err |-> FALSE, StatusCode |-> 400]
        ELSE IF u.Path = "/moved" THEN [err |-> FALSE, StatusCode |-> 301]
        ELSE [err |-> FALSE, StatusCode |-> 200])

(***************************************************************************)
(* Steps of the analysis that are pure functions of their arguments.       *)
(***************************************************************************)
\* faulty variant: the scheme is prepended whatever the URL starts with
normalize_Always(raw) == "https://" \o raw

\* the scheme is prepended when the URL starts with neither http:// nor https://
normalize(raw) ==
    IF ~HasPrefix(raw, "http://") /\ ~HasPrefix(raw, "https://") THEN "https://" \o raw ELSE raw

\* err != nil || parsedURL.Scheme == "" || parsedURL.Host == ""
invalidURL(u) == u.err \/ u.Scheme = "" \/ u.Host = ""

\* url.Parse(link), resolved against base when it is not absolute
resolveLink(base, link) ==
    With(Parse(link), LAMBDA u : IF IsAbs(u) THEN u ELSE ResolveReference(base, u))

\* f(doc): the walk as a whole, from result r and links ls over the nodes
RECURSIVE WalkAll(_, _, _)
WalkAll(r, ls, nodes) ==
    IF nodes = <<>> THEN <<r, ls>>
    ELSE LET v == visit(r, ls, Head(nodes)) IN WalkAll(v[1], v[2], Tail(nodes))

(***************************************************************************)
(* The documents and page URLs the analyses of the model run on.           *)
(***************************************************************************)
Anchor(href) == El("a", <<Attribute("href", href)>>, <<>>)
Anchors(hrefs) == [i \in 1..Len(hrefs) |-> Anchor(hrefs[i])]
Title(text) == El("title", <<>>, IF text = "" THEN <<>> ELSE <<Txt(text)>>)
Input(type) == El("input", <<Attribute("type", type), Attribute("name", "f")>>, <<>>)

MkDoc(doctypes, head, body) ==
    DocumentNode(doctypes \o
                 << El("html", <<>>, << El("head", <<>>, head), El("body", <<>>, body) >>) >>)

\* the page of TestRealAnalyzePage
TestDoc ==
    MkDoc(<<DoctypeNode("html")>>, <<Title("Test Page")>>,
          << El("h1", <<>>, <<Txt("Main Heading")>>), El("h2", <<>>, <<Txt("Sub Heading")>>),
             Anchor("/internal"), Anchor("https://external.com/page"), Input("password") >>)

ShapeDocs ==
    { MkDoc(<<>>, <<Title("First"), Title("Second")>>, <<>>),
      MkDoc(<<DoctypeNode("html")>>, <<Title("Page")>>,
            << El("svg", <<>>, <<Title("Icon")>>), Input("text") >>),
      MkDoc(<<DoctypeNode("html")>>, <<Title("")>>,
            << Input("password"), El("h2", <<>>, <<>>), El("h2", <<>>, <<>>),
               El("header", <<>>, <<>>), El("h7", <<>>, <<>>), El("hr", <<>>, <<>>),
               El("hgroup", <<>>, <<>>), El("h0", <<>>, <<>>), El("h", <<>>, <<>>),
               Anchor("/moved") >>),
      MkDoc(<<Node("Comment", "c", <<>>, <<>>), DoctypeNode("xhtml")>>, <<>>,
            << El("a", <<Attribute("name", "top")>>, <<>>),
               Anchor("#top"), Anchor("/missing"), Anchor("//down.test/x"),
               Anchor("mailto:m"), Anchor(":bad") >>),
      MkDoc(<<DoctypeNode("html")>>, <<>>, << Anchor("/bad"), Anchor("//down.test/x") >>),
      MkDoc(<<>>, <<>>,
            << Input("text"), Input("password"), Input("text"), El("h3", <<>>, <<>>),
               Anchor("/internal"), Title("Late") >>),
      MkDoc(<<>>, <<>>,
            << El("button", <<Attribute("type", "password")>>, <<>>), Input("PASSWORD"),
               El("input", <<Attribute("name", "password"), Attribute("type", "text")>>, <<>>) >>),
      MkDoc(<<DoctypeNode("-//W3C//DTD HTML 4.01//EN xhtml"), DoctypeNode("html")>>, <<>>,
            << Anchor("https://EXAMPLE.com/a"), Anchor("/a") >>),
      MkDoc(<<DoctypeNode("svg")>>, <<>>,
            << Anchor("https://www.example.com/a"), Anchor("https://example.com:443/a") >>) }

HrefAlphabet ==
    {"", "/internal", "https://example.com/internal", "https://external.com/page", "%zz"}

RECURSIVE SeqsUpTo(_, _)
SeqsUpTo(S, n) ==
    IF n = 0 THEN {<<>>}
    ELSE LET shorter == SeqsUpTo(S, n - 1)
         IN  shorter \cup { Append(q, e) : q \in { t \in shorter : Len(t) = n - 1 }, e \in S }

LinkDocs == { MkDoc(<<>>, <<>>, Anchors(hrefs)) : hrefs \in SeqsUpTo(HrefAlphabet, MaxLinks) }

LiveLinkDocs ==
    { MkDoc(<<>>, <<>>, Anchors(hrefs)) : hrefs \in SeqsUpTo(HrefAlphabet, MaxLiveLinks) }

\* raw hrefs that are different strings and resolve to the same URL
SameTargetHrefs ==
    << "/a", "a", "./a", "/./a", "//example.com/a", "https://example.com/a",
       "/b/../a", "b/../a", "../a", "/../a", "./b/../a", "/./b/../a" >>

\* one link more than the gate is wide
WideDoc == MkDoc(<<>>, <<>>, Anchors(SubSeq(SameTargetHrefs, 1, maxConcurrentRequests + 1)))

PageURLs == {"example.com", "http://example.com", "https://example.com/",
             "", "https://", "exa mple.com", "HTTP://example.com"}

Scenarios ==
    { <<u, TestDoc>> : u \in PageURLs }
    \cup { <<"https://example.com", d>> : d \in ShapeDocs \cup LinkDocs \cup {WideDoc} }

\* the scenarios of the specification with fairness
LiveScenarios ==
    { <<u, TestDoc>> : u \in PageURLs }
    \cup { <<"https://example.com", d>> : d \in ShapeDocs \cup LiveLinkDocs \cup {WideDoc} }

\* the requests to AnalyzeHandler: the form value url and the page behind it
HandlerScenarios ==
    { <<u, TestDoc>> : u \in PageURLs } \cup { <<"https://example.com", d>> : d \in ShapeDocs }

\* r.Method
Methods == {"GET", "POST", "post", "DELETE"}

Versions == {"part_002", "analyzer"}

(***************************************************************************)
(* The library calls an analysis of page URL u and document d makes, each  *)
(* tabulated over the arguments that occur in that analysis.  The tables   *)
(* are computed once, in the initial state, and the actions look the       *)
(* calls up in them.                                                       *)
(***************************************************************************)
Range(q) == { q[i] : i \in 1..Len(q) }

Library(u, d) ==
    With(ParseRequestURI(normalize(u)), LAMBDA base :
    With(Preorder(d), LAMBDA nodes :
    With(Range(WalkAll(NewResult, <<>>, nodes)[2]), LAMBDA hrefs :
    With([l \in hrefs |-> Parse(l).err], LAMBDA fails :
    With([l \in { h \in hrefs : ~fails[h] } |->
             With(resolveLink(base, l), LAMBDA r : [Host |-> r.Host, String |-> String(r)])],
         LAMBDA linkURL :
    With({ linkURL[l].String : l \in DOMAIN linkURL }, LAMBDA targets :
        [ \* url.ParseRequestURI(rawURL), rawURL normalized
          requestURI |-> base,
          \* the nodes of d in the order f is called on them
          preorder |-> nodes,
          \* url.Parse(link): err != nil
          parseFails |-> fails,
          \* linkURL after url.Parse and base.ResolveReference: Host and String()
          linkURL |-> linkURL,
          \* http.NewRequest(http.MethodHead, link, nil): err != nil
          newRequestFails |-> [t \in targets |-> NewRequestFails(t)],
          \* httpClient.Do(req) for the HEAD request to link
          headResponse |-> [t \in targets |-> headOracle(t)] ]))))))

(***************************************************************************)
(* State of one analysis.                                                  *)
(***************************************************************************)
VARIABLES
    version,    \* which countLinks / detectHTMLVersion runs: an element of Versions
    input,      \* the argument rawURL of the call
    doc,        \* what html.Parse yields for the body of the page
    lib,        \* Library(input, doc)
    pc,         \* where the calling goroutine is
    rawURL,     \* the local rawURL, after the scheme has been prepended
    parsedURL,  \* the base URL
    gets,       \* GET requests issued
    status,     \* resp.StatusCode of the page fetch, 0 while there is no response
    retResult,  \* the returned *AnalysisResult: <<>> is nil
    retErr,     \* the returned error: <<>> is nil
    result,     \* the AnalysisResult under construction
    links,      \* the raw hrefs collected by the walk
    wi,         \* the walk's position in Preorder(doc)
    li,         \* index of the link the loop of countLinks is at
    seen,       \* seen map of countLinks
    resultCh,   \* the outcomes buffered in resultCh
    closed,     \* resultCh is closed
    panicked,   \* a send on, or a close of, the closed channel happened
    sem,        \* slots of sem that are taken
    wg,         \* the WaitGroup counter
    probes,     \* the probe goroutines: a bag of [link, pc, sends]
    closer,     \* the goroutine that waits for wg and closes resultCh
    nread,      \* outcomes the range loop has received
    method,     \* r.Method of the request to AnalyzeHandler; "" without a request
    hpc,        \* where AnalyzeHandler is; "none" when AnalyzePage is called directly
    response,   \* what AnalyzeHandler has written: redirect or rendered PageData
    calls,      \* calls of parser.AnalyzePage made by AnalyzeHandler
    parked,     \* <<the state of the other analysis>> when two run at once, else <<>>
    cur         \* which of the analyses the other variables belong to

vars == <<version, input, doc, lib, pc, rawURL, parsedURL, gets, status, retResult, retErr, result,
          links, wi, li, seen, resultCh, closed, panicked, sem, wg, probes, closer, nread,
          method, hpc, response, calls, parked, cur>>

pageVars == <<rawURL, parsedURL, gets, status, retResult, retErr>>
walkVars == <<result, links, wi>>
linkVars == <<li, seen, resultCh, closed, panicked, sem, wg, probes, closer, nread>>
\* the request, and the analysis that is not taking the step
request  == <<version, input, doc, lib, method, parked, cur>>
\* what no step of the analysis changes
fixed    == <<request, hpc, response, calls>>

\* what AnalyzeHandler has written before it writes anything
NoResponse == [status |-> 0, location |-> "", data |-> <<>>]

\* the state in which the analysis of one of the scenarios has not begun
Start(scenarios) ==
    /\ version \in Versions
    /\ \E sc \in scenarios : input = sc[1] /\ doc = sc[2] /\ lib = Library(sc[1], sc[2])
    /\ rawURL = ""
    /\ parsedURL = NoURL
    /\ gets = 0
    /\ status = 0
    /\ retResult = <<>>
    /\ retErr = <<>>
    /\ result = NewResult
    /\ links = <<>>
    /\ wi = 1
    /\ li = 1
    /\ seen = {}
    /\ resultCh = <<>>
    /\ closed = FALSE
    /\ panicked = FALSE
    /\ sem = 0
    /\ wg = 0
    /\ probes = EmptyBag
    /\ closer = "none"
    /\ nread = 0
    /\ response = NoResponse
    /\ calls = 0

\* AnalyzePage is called directly, as TestRealAnalyzePage calls it
InitOn(scenarios) ==
    /\ Start(scenarios)
    /\ pc = "validate"
    /\ method = ""
    /\ hpc = "none"
    /\ parked = <<>>
    /\ cur = 1

\* a request arrives at AnalyzeHandler; its form value url is input
HandlerInit ==
    /\ Start(HandlerScenarios)
    /\ pc = "idle"
    /\ method \in Methods
    /\ hpc = "start"
    /\ parked = <<>>
    /\ cur = 1

Init == InitOn(Scenarios) \/ HandlerInit

(***************************************************************************)
(* realAnalyzePage / AnalyzePage up to the call of countLinks.             *)
(***************************************************************************)
\* fmt.Errorf(...): the message prefix, the status and its text for an
\* HTTP error, and whether a cause is wrapped
Error(msg, code, cause) ==
    [msg |-> msg, status |-> code, text |-> IF code = 0 THEN "" ELSE StatusText(code),
     cause |-> cause]

\* faulty variant: the result built so far is returned with the error
Fail_Partial(e) ==
    /\ pc' = "failed"
    /\ retResult' = <<result>>
    /\ retErr' = <<e>>

\* return nil, err
Fail(e) ==
    /\ pc' = "failed"
    /\ retResult' = <<>>
    /\ retErr' = <<e>>

Validate ==
    /\ pc = "validate"
    /\ rawURL' = normalize(input)
    /\ IF invalidURL(lib.requestURI)
       THEN Fail(Error("invalid URL", 0, lib.requestURI.err)) /\ UNCHANGED parsedURL
       ELSE pc' = "fetch" /\ parsedURL' = lib.requestURI /\ UNCHANGED <<retResult, retErr>>
    /\ UNCHANGED <<fixed, gets, status, walkVars, linkVars>>

\* faulty variant: > for >=
httpError_Above400(code) == code > 400

\* resp.StatusCode >= 400
httpError(code) == code >= 400

\* httpClient.Get(rawURL) and the check of the status
Fetch ==
    /\ pc = "fetch"
    /\ gets' = gets + 1
    /\ \/ Fail(Error("unable to reach URL", 0, TRUE)) /\ UNCHANGED status
       \/ \E code \in GetStatuses :
            /\ status' = code
            /\ IF httpError(code)
               THEN Fail(Error("HTTP error", code, FALSE))
               ELSE pc' = "parse" /\ UNCHANGED <<retResult, retErr>>
    /\ UNCHANGED <<fixed, rawURL, parsedURL, walkVars, linkVars>>

\* html.Parse(resp.Body): fails when the body cannot be read
ParseHTML ==
    /\ pc = "parse"
    /\ \/ Fail(Error("failed to parse HTML", 0, TRUE)) /\ UNCHANGED walkVars
       \/ /\ pc' = "walk"
          /\ result' = NewResult
          /\ links' = <<>>
          /\ wi' = 1
          /\ UNCHANGED <<retResult, retErr>>
    /\ UNCHANGED <<fixed, rawURL, parsedURL, gets, status, linkVars>>

\* one call of f: the node at the walk's position
WalkStep ==
    /\ pc = "walk"
    /\ wi <= Len(lib.preorder)
    /\ result' = visit(result, links, lib.preorder[wi])[1]
    /\ links' = visit(result, links, lib.preorder[wi])[2]
    /\ wi' = wi + 1
    /\ UNCHANGED <<fixed, pc, pageVars, linkVars>>

\* f(doc) has returned: result.HTMLVersion = detectHTMLVersion(doc), then
\* countLinks is entered
DetectVersion ==
    /\ pc = "walk"
    /\ wi > Len(lib.preorder)
    /\ result' = [result EXCEPT !.HTMLVersion = detectHTMLVersion(version, doc)]
    /\ pc' = "links"
    /\ UNCHANGED <<fixed, pageVars, links, wi, linkVars>>

(***************************************************************************)
(* countLinks.                                                             *)
(***************************************************************************)
gated == version = "part_002"

Probe(link, at, sends) == [link |-> link, pc |-> at, sends |-> sends]

BagAdd(b, e) == b (+) SetToBag({e})
BagMove(b, old, new) == (b (-) SetToBag({old})) (+) SetToBag({new})

\* faulty variant: the seen map is never consulted
skipLink_NoDedup(link, seenLinks) == link = ""

\* faulty variant: an empty href is not skipped
skipLink_EmptyNotSkipped(link, seenLinks) == link \in seenLinks

\* link == "" || seen[link]
skipLink(link, seenLinks) == link = "" \/ link \in seenLinks

\* faulty variant: the hosts are compared without regard to case
isInternal_CaseInsensitive(base, linkURL) == ToLower(linkURL.Host) = ToLower(base.Host)

\* linkURL.Host == base.Host
isInternal(base, linkURL) == linkURL.Host = base.Host

\* faulty variant: the link is counted before the error of url.Parse is looked at
onParseError_CountsExternal(r) == [r EXCEPT !.ExternalLinks = @ + 1]

\* if err != nil { continue }: the result is left as it is
onParseError(r) == r

\* go func(link string) {...}(linkURL.String()): wg.Add(1) came before
launch(b, linkURL) == BagAdd(b, Probe(linkURL.String, "start", 0))

\* faulty variant: wg.Add(1) is missing
wgAfterAdd_Missing(n) == n

\* wg.Add(1)
wgAfterAdd(n) == n + 1

\* one iteration of the loop over links, the go statement included
ClassifyLink ==
    /\ pc = "links"
    /\ li <= Len(links)
    /\ li' = li + 1
    /\ LET link == links[li]
       IN  IF skipLink(link, seen)
           THEN UNCHANGED <<seen, result, wg, probes>>
           ELSE /\ seen' = seen \cup {link}
                /\ IF lib.parseFails[link]
                   THEN result' = onParseError(result) /\ UNCHANGED <<wg, probes>>
                   ELSE /\ result' = IF isInternal(parsedURL, lib.linkURL[link])
                                     THEN [result EXCEPT !.InternalLinks = @ + 1]
                                     ELSE [result EXCEPT !.ExternalLinks = @ + 1]
                        /\ wg' = wgAfterAdd(wg)
                        /\ probes' = launch(probes, lib.linkURL[link])
    /\ UNCHANGED <<fixed, pc, pageVars, links, wi, resultCh, closed, panicked, sem, closer, nread>>

\* the loop is over: go func() { wg.Wait(); close(resultCh) }()
SpawnCloser ==
    /\ pc = "links"
    /\ li > Len(links)
    /\ closer' = "wait"
    /\ pc' = "collect"
    /\ UNCHANGED <<fixed, pageVars, walkVars, li, seen, resultCh, closed, panicked, sem, wg,
                   probes, nread>>

\* sem <- struct{}{} (part_002 only)
Acquire ==
    /\ gated
    /\ sem < maxConcurrentRequests
    /\ \E p \in BagToSet(probes) :
         /\ p.pc = "start"
         /\ probes' = BagMove(probes, p, [p EXCEPT !.pc = "acquired"])
    /\ sem' = sem + 1
    /\ UNCHANGED <<fixed, pc, pageVars, walkVars, li, seen, resultCh, closed, panicked, wg,
                   closer, nread>>

\* resultCh <- v: blocks while the buffer of len(links) is full, panics on
\* a closed channel
CanSend == Len(resultCh) < Len(links) \/ closed

Send(v) ==
    /\ CanSend
    /\ IF closed
       THEN panicked' = TRUE /\ UNCHANGED resultCh
       ELSE resultCh' = Append(resultCh, v) /\ UNCHANGED panicked

\* http.NewRequest and the start of httpClient.Do: the probe is in flight.
\* A request that cannot be built sends false at once.
IssueHead ==
    /\ \E p \in BagToSet(probes) :
         /\ p.pc = IF gated THEN "acquired" ELSE "start"
         /\ IF lib.newRequestFails[p.link]
            THEN /\ Send(FALSE)
                 /\ probes' = BagMove(probes, p, [p EXCEPT !.pc = "sent", !.sends = @ + 1])
            ELSE /\ probes' = BagMove(probes, p, [p EXCEPT !.pc = "flight"])
                 /\ UNCHANGED <<resultCh, panicked>>
    /\ UNCHANGED <<fixed, pc, pageVars, walkVars, li, seen, closed, sem, wg, closer, nread>>

\* faulty variant: the error of Do is not looked at
accessible_StatusOnly(resp) == ~(resp.StatusCode >= 400)

\* faulty variant: a status of exactly 400 passes
accessible_Above400(resp) == ~resp.err /\ ~(resp.StatusCode > 400)

\* err != nil, or resp.StatusCode >= 400: the link is inaccessible
accessible(resp) == ~resp.err /\ ~(resp.StatusCode >= 400)

\* faulty variant: the probe goroutine counts its own failure in the result
probeWrites_Tally(r, ok) == IF ~ok THEN [r EXCEPT !.InaccessibleLinks = @ + 1] ELSE r

\* the body of the probe goroutine has no statement on result: the outcome
\* goes to resultCh only
probeWrites(r, ok) == r

\* httpClient.Do returns and the outcome is sent
Respond ==
    /\ \E p \in BagToSet(probes) :
         /\ p.pc = "flight"
         /\ Send(accessible(lib.headResponse[p.link]))
         /\ result' = probeWrites(result, accessible(lib.headResponse[p.link]))
         /\ probes' = BagMove(probes, p, [p EXCEPT !.pc = "sent", !.sends = @ + 1])
    /\ UNCHANGED <<fixed, pc, pageVars, links, wi, li, seen, closed, sem, wg, closer, nread>>

\* faulty variant: the slot is not given back
semAfterRelease_Missing(n) == n

\* <-sem takes one element out of the channel sem
semAfterRelease(n) == n - 1

\* defer func() { <-sem }() (part_002 only)
Release ==
    /\ gated
    /\ \E p \in BagToSet(probes) :
         /\ p.pc = "sent"
         /\ probes' = BagMove(probes, p, [p EXCEPT !.pc = "released"])
    /\ sem' = semAfterRelease(sem)
    /\ UNCHANGED <<fixed, pc, pageVars, walkVars, li, seen, resultCh, closed, panicked, wg,
                   closer, nread>>

\* faulty variant: wg.Done() is missing
wgAfterDone_Missing(n) == n

\* wg.Done() takes one off the counter
wgAfterDone(n) == n - 1

\* defer wg.Done()
WgDone ==
    /\ \E p \in BagToSet(probes) :
         /\ p.pc = IF gated THEN "released" ELSE "sent"
         /\ probes' = BagMove(probes, p, [p EXCEPT !.pc = "done"])
    /\ wg' = wgAfterDone(wg)
    /\ UNCHANGED <<fixed, pc, pageVars, walkVars, li, seen, resultCh, closed, panicked, sem,
                   closer, nread>>

\* faulty variant: the closer does not wait for the probes
waitReturns_NoWait(n) == TRUE

\* wg.Wait() blocks until the counter is zero
waitReturns(n) == n = 0

\* wg.Wait() returns
CloserWait ==
    /\ closer = "wait"
    /\ waitReturns(wg)
    /\ closer' = "close"
    /\ UNCHANGED <<fixed, pc, pageVars, walkVars, li, seen, resultCh, closed, panicked, sem, wg,
                   probes, nread>>

\* close(resultCh)
CloserClose ==
    /\ closer = "close"
    /\ closer' = "done"
    /\ closed' = TRUE
    /\ panicked' = (panicked \/ closed)
    /\ UNCHANGED <<fixed, pc, pageVars, walkVars, li, seen, resultCh, sem, wg, probes, nread>>

\* faulty variant: -- for ++
tally_Decrement(r, ok) == IF ~ok THEN [r EXCEPT !.InaccessibleLinks = @ - 1] ELSE r

\* faulty variant: an inaccessible link is taken off the external links
tally_OffExternal(r, ok) ==
    IF ~ok THEN [r EXCEPT !.InaccessibleLinks = @ + 1, !.ExternalLinks = @ - 1] ELSE r

\* if !accessible { result.InaccessibleLinks++ }
tally(r, ok) == IF ~ok THEN [r EXCEPT !.InaccessibleLinks = @ + 1] ELSE r

\* for accessible := range resultCh: one outcome is received
Collect ==
    /\ pc = "collect"
    /\ resultCh # <<>>
    /\ result' = tally(result, Head(resultCh))
    /\ resultCh' = Tail(resultCh)
    /\ nread' = nread + 1
    /\ UNCHANGED <<fixed, pc, pageVars, links, wi, li, seen, closed, panicked, sem, wg, probes,
                   closer>>

\* faulty variant: the loop stops as soon as the buffer is empty
rangeEnds_OnEmpty(ch, isClosed) == ch = <<>>

\* a range over a channel ends when the channel is closed and drained
rangeEnds(ch, isClosed) == ch = <<>> /\ isClosed

\* the range loop ends; countLinks returns and the analysis returns result, nil
Return ==
    /\ pc = "collect"
    /\ rangeEnds(resultCh, closed)
    /\ pc' = "done"
    /\ retResult' = <<result>>
    /\ retErr' = <<>>
    /\ UNCHANGED <<fixed, rawURL, parsedURL, gets, status, walkVars, linkVars>>

(***************************************************************************)
(* AnalyzeHandler.                                                         *)
(***************************************************************************)
Digits == "0123456789"

\* %d of fmt: the decimal digits of n >= 0
RECURSIVE Itoa(_)
Itoa(n) == IF n < 10 THEN CharAt(Digits, n + 1) ELSE Itoa(n \div 10) \o CharAt(Digits, (n % 10) + 1)

\* err.Error() of the errors AnalyzePage returns: the format of fmt.Errorf
\* filled in; %w of a nil error prints as %!w(<nil>), and the text of a
\* wrapped error of net/url, net/http or html is "cause"
ErrorText(e) ==
    e.msg \o ": " \o (IF e.status # 0 THEN Itoa(e.status) \o " " \o e.text
                      ELSE IF e.cause THEN "cause"
                      ELSE "%!w(<nil>)")

PageData(res, err) == [Result |-> res, Error |-> err]

\* faulty variant: one of the seven fields is not copied
ResultDataOf_NoLoginForm(a) ==
    [HTMLVersion |-> a.HTMLVersion, Title |-> a.Title, Headings |-> a.Headings,
     InternalLinks |-> a.InternalLinks, ExternalLinks |-> a.ExternalLinks,
     InaccessibleLinks |-> a.InaccessibleLinks, LoginForm |-> FALSE]

\* data := &ResultData{...}
ResultDataOf(a) ==
    [HTMLVersion |-> a.HTMLVersion, Title |-> a.Title, Headings |-> a.Headings,
     InternalLinks |-> a.InternalLinks, ExternalLinks |-> a.ExternalLinks,
     InaccessibleLinks |-> a.InaccessibleLinks, LoginForm |-> a.LoginForm]

\* tmpl.Execute(w, data): the page is written, with status 200
Rendered(data) == [status |-> 200, location |-> "", data |-> <<data>>]

\* faulty variant: the method is compared without regard to case
isPost_AnyCase(m) == ToUpper(m) = "POST"

\* r.Method != http.MethodPost, negated
isPost(m) == m = "POST"

\* faulty variant: an empty url is passed on to AnalyzePage
urlMissing_Never(u) == FALSE

\* url == ""
urlMissing(u) == u = ""

\* http.Redirect(w, r, "/", http.StatusSeeOther); return
Redirect ==
    /\ hpc = "start"
    /\ ~isPost(method)
    /\ response' = [status |-> 303, location |-> "/", data |-> <<>>]
    /\ hpc' = "done"
    /\ UNCHANGED <<request, calls, pc, pageVars, walkVars, linkVars>>

\* tmpl.Execute(w, PageData{Error: "URL is required"}); return
RequireURL ==
    /\ hpc = "start"
    /\ isPost(method)
    /\ urlMissing(input)
    /\ response' = Rendered(PageData(<<>>, "URL is required"))
    /\ hpc' = "done"
    /\ UNCHANGED <<request, calls, pc, pageVars, walkVars, linkVars>>

\* parser.AnalyzePage(url) is called
Invoke ==
    /\ hpc = "start"
    /\ isPost(method)
    /\ ~urlMissing(input)
    /\ pc = "idle"
    /\ pc' = "validate"
    /\ calls' = calls + 1
    /\ hpc' = "analyzing"
    /\ UNCHANGED <<request, response, pageVars, walkVars, linkVars>>

\* parser.AnalyzePage has returned: the error page or the result page
Render ==
    /\ hpc = "analyzing"
    /\ pc \in {"done", "failed"}
    /\ response' = IF retErr # <<>>
                   THEN Rendered(PageData(<<>>, ErrorText(retErr[1])))
                   ELSE Rendered(PageData(<<ResultDataOf(retResult[1])>>, ""))
    /\ hpc' = "done"
    /\ UNCHANGED <<request, calls, pc, pageVars, walkVars, linkVars>>

Next ==
    \/ Redirect
    \/ RequireURL
    \/ Invoke
    \/ Render
    \/ Validate
    \/ Fetch
    \/ ParseHTML
    \/ WalkStep
    \/ DetectVersion
    \/ ClassifyLink
    \/ SpawnCloser
    \/ Acquire
    \/ IssueHead
    \/ Respond
    \/ Release
    \/ WgDone
    \/ CloserWait
    \/ CloserClose
    \/ Collect
    \/ Return

Spec == Init /\ [][Next]_vars

(***************************************************************************)
(* Two analyses at once: a direct call of AnalyzePage and a request to     *)
(* AnalyzeHandler, each in its own goroutine.  The variables hold the      *)
(* analysis that takes the next step, parked holds the other one; the      *)
(* scheduler may turn to the other at any point.                           *)
(***************************************************************************)
\* the page of the first analysis, and its URL
PairFirst ==
    { <<"https://example.com",
        MkDoc(<<>>, <<>>, Anchors(<<"/internal", "https://external.com/page">>))>> }

\* the form value url of the second, and the page behind it: the same href
\* as in the first page, on another host
PairSecond ==
    { <<"http://external.com", MkDoc(<<DoctypeNode("html")>>, <<>>, Anchors(<<"/internal", "/page">>))>>,
      <<"", MkDoc(<<>>, <<>>, <<>>)>> }

PairMethods == {"GET", "POST"}

\* everything one call owns: its arguments, its locals, the locals of its
\* countLinks (seen, wg, resultCh, sem) and its goroutines
AnalysisState ==
    [input |-> input, doc |-> doc, lib |-> lib, pc |-> pc, rawURL |-> rawURL,
     parsedURL |-> parsedURL, gets |-> gets, status |-> status, retResult |-> retResult,
     retErr |-> retErr, result |-> result, links |-> links, wi |-> wi, li |-> li,
     seen |-> seen, resultCh |-> resultCh, closed |-> closed, panicked |-> panicked,
     sem |-> sem, wg |-> wg, probes |-> probes, closer |-> closer, nread |-> nread,
     method |-> method, hpc |-> hpc, response |-> response, calls |-> calls]

\* a request to AnalyzeHandler that has not been looked at
Request(u, d, m) ==
    [input |-> u, doc |-> d, lib |-> Library(u, d), pc |-> "idle", rawURL |-> "",
     parsedURL |-> NoURL, gets |-> 0, status |-> 0, retResult |-> <<>>,
     retErr |-> <<>>, result |-> NewResult, links |-> <<>>, wi |-> 1, li |-> 1,
     seen |-> {}, resultCh |-> <<>>, closed |-> FALSE, panicked |-> FALSE,
     sem |-> 0, wg |-> 0, probes |-> EmptyBag, closer |-> "none", nread |-> 0,
     method |-> m, hpc |-> "start", response |-> NoResponse, calls |-> 0]

PairInit ==
    /\ Start(PairFirst)
    /\ pc = "validate"
    /\ method = ""
    /\ hpc = "none"
    /\ cur = 1
    /\ \E sc \in PairSecond, m \in PairMethods : parked = <<Request(sc[1], sc[2], m)>>

\* faulty variant: seen is one map of the package, used by every call
seenOf_PackageLevel(own, current) == current

\* seen := make(map[string]bool) in countLinks: each call has its own map
seenOf(own, current) == own

\* the other analysis takes the next step
Switch ==
    /\ parked # <<>>
    /\ parked' = <<AnalysisState>>
    /\ cur' = 3 - cur
    /\ input' = parked[1].input
    /\ doc' = parked[1].doc
    /\ lib' = parked[1].lib
    /\ pc' = parked[1].pc
    /\ rawURL' = parked[1].rawURL
    /\ parsedURL' = parked[1].parsedURL
    /\ gets' = parked[1].gets
    /\ status' = parked[1].status
    /\ retResult' = parked[1].retResult
    /\ retErr' = parked[1].retErr
    /\ result' = parked[1].result
    /\ links' = parked[1].links
    /\ wi' = parked[1].wi
    /\ li' = parked[1].li
    /\ seen' = seenOf(parked[1].seen, seen)
    /\ resultCh' = parked[1].resultCh
    /\ closed' = parked[1].closed
    /\ panicked' = parked[1].panicked
    /\ sem' = parked[1].sem
    /\ wg' = parked[1].wg
    /\ probes' = parked[1].probes
    /\ closer' = parked[1].closer
    /\ nread' = parked[1].nread
    /\ method' = parked[1].method
    /\ hpc' = parked[1].hpc
    /\ response' = parked[1].response
    /\ calls' = parked[1].calls
    /\ UNCHANGED version

PairNext == Next \/ Switch

PairSpec == PairInit /\ [][PairNext]_vars

\* the goroutines of one analysis: the caller, the probes and the closer
Caller ==
    \/ Validate \/ Fetch \/ ParseHTML \/ WalkStep \/ DetectVersion
    \/ ClassifyLink \/ SpawnCloser \/ Collect \/ Return
    \/ Redirect \/ RequireURL \/ Invoke \/ Render
ProbeStep == Acquire \/ IssueHead \/ Respond \/ Release \/ WgDone
CloserStep == CloserWait \/ CloserClose

\* the Go scheduler runs every goroutine that can take a step, and every
\* request gets its response, error or timeout
Fairness == WF_vars(Caller) /\ WF_vars(ProbeStep) /\ WF_vars(CloserStep)

FairSpec == (InitOn(LiveScenarios) \/ HandlerInit) /\ [][Next]_vars /\ Fairness

(***************************************************************************)
(* Definitions the properties are stated with.                             *)
(***************************************************************************)
RECURSIVE SumCopies(_, _)
SumCopies(S, b) ==
    IF S = {} THEN 0
    ELSE LET e == CHOOSE x \in S : TRUE IN CopiesIn(e, b) + SumCopies(S \ {e}, b)

\* number of probe goroutines whose position is in ats
ProbesAt(ats) == SumCopies({ p \in BagToSet(probes) : p.pc \in ats }, probes)

Launched == BagCardinality(probes)
InFlight == ProbesAt({"flight"})
Classified == result.InternalLinks + result.ExternalLinks

\* the raw hrefs of ls that are classified: non-empty, parseable, each once
DistinctParseable(ls) == { l \in Range(ls) : l # "" /\ ~Parse(l).err }

\* the URL a classified raw href is probed at
ProbeTarget(l) ==
    LET u == Parse(l)
    IN  String(IF u.Scheme # "" THEN u ELSE ResolveReference(parsedURL, u))

\* the oracle's answer for a probe is an error or a status >= 400
ProbeFails(target) ==
    \/ Parse(target).err
    \/ headOracle(target).err
    \/ headOracle(target).StatusCode >= 400

(***************************************************************************)
(* C1: when countLinks has returned, the consumer has read exactly as many *)
(* outcomes as links were classified; every launched probe has sent        *)
(* exactly one outcome, none is left in the channel and none was lost on   *)
(* a closed channel.  In every state the outcomes sent are those read plus *)
(* those buffered.                                                         *)
(***************************************************************************)
C1_OutcomesEqualClassified ==
    /\ \A p \in BagToSet(probes) : p.sends <= 1
    /\ ~panicked
    /\ ProbesAt({"sent", "released", "done"}) = nread + Len(resultCh)
    /\ pc = "done" =>
         /\ nread = Classified
         /\ Launched = Classified
         /\ \A p \in BagToSet(probes) : p.sends = 1
         /\ resultCh = <<>>

C1_Witness == pc = "done" /\ nread >= 2 /\ Classified = nread

(***************************************************************************)
(* C2: in both versions of countLinks at most maxConcurrentRequests probes *)
(* are in flight at any moment.                                            *)
(***************************************************************************)
C2_InFlightBounded == InFlight <= maxConcurrentRequests

\* what does hold: the bound, in the version that has the gate
C2_GatedInFlightBounded == gated => InFlight <= sem /\ sem <= maxConcurrentRequests

(***************************************************************************)
(* C3: in every state, and in the returned result, InaccessibleLinks is at *)
(* most InternalLinks + ExternalLinks and the three counters are not       *)
(* negative.                                                               *)
(***************************************************************************)
CountersInRange(r) ==
    /\ r.InternalLinks >= 0
    /\ r.ExternalLinks >= 0
    /\ r.InaccessibleLinks >= 0
    /\ r.InaccessibleLinks <= r.InternalLinks + r.ExternalLinks

C3_InaccessibleAtMostClassified ==
    /\ CountersInRange(result)
    /\ \A i \in 1..Len(retResult) : CountersInRange(retResult[i])

\* every probe failed
C3_Witness ==
    /\ pc = "done"
    /\ retResult[1].InaccessibleLinks = 2
    /\ retResult[1].InternalLinks + retResult[1].ExternalLinks = 2

(***************************************************************************)
(* C4: when countLinks has returned, InaccessibleLinks is the number of    *)
(* classified links whose probe the oracle answers with an error or a      *)
(* status >= 400, each classified entry counted once.                      *)
(***************************************************************************)
C4_InaccessibleIsFailedProbes ==
    pc = "done" =>
        result.InaccessibleLinks =
            Cardinality({ l \in DistinctParseable(links) : ProbeFails(ProbeTarget(l)) })

C4_Witness ==
    /\ pc = "done"
    /\ result.InaccessibleLinks = 3
    /\ Classified = 4
    /\ \E l \in DistinctParseable(links) : headOracle(ProbeTarget(l)).err

(***************************************************************************)
(* C5: after countLinks, InternalLinks + ExternalLinks is the number of    *)
(* distinct non-empty raw hrefs that parse: a raw string that occurs       *)
(* several times counts once, two raw strings with the same target count   *)
(* twice.                                                                  *)
(***************************************************************************)
C5_ClassifiedIsDistinctParseable ==
    pc \in {"collect", "done"} => Classified = Cardinality(DistinctParseable(links))

\* a duplicate raw string, and two raw strings with one target, both counted
C5_Witness ==
    /\ pc = "done"
    /\ Len(links) = 3
    /\ Classified = 2
    /\ \E l1, l2 \in DistinctParseable(links) : l1 # l2 /\ ProbeTarget(l1) = ProbeTarget(l2)

(***************************************************************************)
(* C6: the returned AnalysisResult is a function of the version, the page  *)
(* URL, the document and the probe oracle alone: whatever the order in     *)
(* which the probes run and complete, and in every run, all seven fields   *)
(* are those of the sequential computation below.                          *)
(***************************************************************************)
Expected(v, base, d) ==
    LET w  == WalkAll(NewResult, <<>>, Preorder(d))
        cl == DistinctParseable(w[2])
        target(l) == LET u == Parse(l)
                     IN  IF u.Scheme # "" THEN u ELSE ResolveReference(base, u)
        int == { l \in cl : target(l).Host = base.Host }
    IN  [w[1] EXCEPT !.HTMLVersion = detectHTMLVersion(v, d),
                     !.InternalLinks = Cardinality(int),
                     !.ExternalLinks = Cardinality(cl \ int),
                     !.InaccessibleLinks =
                         Cardinality({ l \in cl : ProbeFails(String(target(l))) })]

C6_ResultIsDeterministic ==
    pc = "done" => retResult = <<Expected(version, ParseRequestURI(normalize(input)), doc)>>

\* probes with different outcomes, read in an order other than the launch order
C6_Witness ==
    /\ pc = "collect"
    /\ nread = 1
    /\ result.InaccessibleLinks = 1
    /\ links = <<"/internal", "https://external.com/page">>
    /\ resultCh = <<TRUE>>

(***************************************************************************)
(* C7: a failed analysis returns a nil result and a non-nil error and has  *)
(* launched no probe; a non-nil result comes with a nil error and is the   *)
(* complete result; nothing is returned before the analysis has ended.     *)
(***************************************************************************)
C7_NilResultOnFailure ==
    /\ pc = "failed" => retResult = <<>> /\ Len(retErr) = 1 /\ Launched = 0 /\ links = <<>>
    /\ retResult # <<>> => retErr = <<>> /\ pc = "done" /\ retResult = <<result>>
    /\ pc \notin {"done", "failed"} => retResult = <<>> /\ retErr = <<>>
    /\ pc = "done" => Len(retResult) = 1

\* the failure that comes latest, after the page has been fetched
C7_Witness == pc = "failed" /\ retErr[1].msg = "failed to parse HTML" /\ status = 200

(***************************************************************************)
(* C8: the error kind is that of the first failing step.  An invalid URL   *)
(* fails in validation, before any GET; a GET without response gives       *)
(* "unable to reach URL"; a response with status >= 400 gives "HTTP error" *)
(* with the status and its text, and the body is not parsed; a parse       *)
(* failure gives "failed to parse HTML".  A step whose check fails never   *)
(* lets the analysis go on.                                                *)
(***************************************************************************)
C8_ErrorKindByStep ==
    [][ /\ (pc' = "failed" /\ pc # "failed") =>
             /\ Len(retErr') = 1
             /\ \/ /\ pc = "validate"
                   /\ retErr'[1].msg = "invalid URL"
                   /\ invalidURL(ParseRequestURI(normalize(input)))
                   /\ gets' = 0
                \/ /\ pc = "fetch"
                   /\ status' = 0
                   /\ retErr'[1].msg = "unable to reach URL"
                   /\ gets' = 1
                \/ /\ pc = "fetch"
                   /\ status' >= 400
                   /\ retErr'[1].msg = "HTTP error"
                   /\ retErr'[1].status = status'
                   /\ retErr'[1].text = StatusText(status')
                   /\ result' = NewResult /\ wi' = 1 /\ links' = <<>>
                \/ /\ pc = "parse"
                   /\ retErr'[1].msg = "failed to parse HTML"
        /\ (pc = "validate" /\ invalidURL(ParseRequestURI(normalize(input)))) => pc' = "failed"
        /\ (pc = "fetch" /\ status' >= 400) => pc' = "failed"
      ]_vars

C8_Witness ==
    /\ pc = "failed"
    /\ retErr[1].msg = "HTTP error"
    /\ retErr[1].status = 404
    /\ retErr[1].text = "Not Found"

(***************************************************************************)
(* C9: under fair scheduling countLinks terminates and the analysis        *)
(* returns its result: every probe gets its slot, sends its outcome and    *)
(* gives the slot back, the channel is closed and the range loop ends,     *)
(* also when every probe fails.                                            *)
(***************************************************************************)
C9_CountLinksTerminates ==
    (pc = "links") ~>
        (/\ pc = "done"
         /\ Len(retResult) = 1
         /\ closed
         /\ sem = 0
         /\ ProbesAt({"done"}) = Launched)

\* a returned analysis all of whose probes failed
C9_Witness ==
    /\ pc = "done"
    /\ Len(retResult) = 1
    /\ Launched = 2
    /\ result.InaccessibleLinks = 2

(***************************************************************************)
(* C10: the Title of the result is the text of the first child of the      *)
(* first <title> element in preorder; later <title> elements are ignored.  *)
(***************************************************************************)
TitleElements(d) == SelectSeq(Preorder(d), LAMBDA n : n.Type = "Element" /\ n.Data = "title")

FirstTitleText(d) ==
    LET ts == TitleElements(d)
    IN  IF ts = <<>> \/ ts[1].Kids = <<>> THEN "" ELSE ts[1].Kids[1].Data

C10_FirstTitleWins == pc = "done" => result.Title = FirstTitleText(doc)

(***************************************************************************)
(* C11: in both versions, detectHTMLVersion called with the document root  *)
(* scans the root's immediate children, takes the first doctype node and   *)
(* matches its lower-cased text by priority: "html 4.01", then "xhtml",    *)
(* then "html"; no doctype node or no match is Unknown.                    *)
(***************************************************************************)
RootDoctypes(d) == SelectSeq(d.Kids, LAMBDA n : n.Type = "Doctype")

VersionByDoctype(d) ==
    IF RootDoctypes(d) = <<>> THEN "Unknown"
    ELSE With(ToLower(RootDoctypes(d)[1].Data), LAMBDA text :
             IF Contains(text, "html 4.01") THEN "HTML 4.01"
             ELSE IF Contains(text, "xhtml") THEN "XHTML"
             ELSE IF Contains(text, "html") THEN "HTML 5"
             ELSE "Unknown")

C11_VersionByDoctype == pc = "done" => result.HTMLVersion = VersionByDoctype(doc)

\* what does hold: the classification, in the version of part_002
C11_Part002VersionByDoctype ==
    (pc = "done" /\ version = "part_002") => result.HTMLVersion = VersionByDoctype(doc)

(***************************************************************************)
(* C12: every classified link is counted in exactly one of InternalLinks   *)
(* and ExternalLinks: Internal exactly when its host, after a relative     *)
(* reference has been resolved against the base, is the same string as the *)
(* base host (case, port and "www." all count), External otherwise.        *)
(***************************************************************************)
\* the raw hrefs of ls that the loop classifies, and the host each has once
\* it is parsed and, when relative, resolved against the base
ClassifiedHrefs(ls) == { l \in Range(ls) : l # "" /\ ~lib.parseFails[l] }

ResolvedHost(l) == lib.linkURL[l].Host

InternalHrefs(base, ls) == { l \in ClassifiedHrefs(ls) : ResolvedHost(l) = base.Host }

C12_InternalIffSameHost ==
    pc \in {"links", "collect", "done"} =>
        /\ result.InternalLinks =
               Cardinality(InternalHrefs(parsedURL, SubSeq(links, 1, li - 1)))
        /\ result.ExternalLinks =
               Cardinality(ClassifiedHrefs(SubSeq(links, 1, li - 1))
                           \ InternalHrefs(parsedURL, SubSeq(links, 1, li - 1)))

\* a host that differs from the base host in case only is External
C12_Witness ==
    /\ pc = "done"
    /\ links = <<"https://EXAMPLE.com/a", "/a">>
    /\ parsedURL.Host = "example.com"
    /\ result.InternalLinks = 1
    /\ result.ExternalLinks = 1

(***************************************************************************)
(* C13: a raw href that url.Parse rejects is left out of everything.  The  *)
(* iteration of the loop that meets it changes no counter and starts no    *)
(* probe, and the loop goes on: when it is over every link has been        *)
(* handled, and the probes and the counted links are those of the hrefs    *)
(* that parse.                                                             *)
(***************************************************************************)
C13_UnparseableHrefDropped ==
    /\ [][(/\ pc = "links"
           /\ li' = li + 1
           /\ links[li] # ""
           /\ links[li] \notin seen
           /\ Parse(links[li]).err)
          => (/\ result' = result
              /\ probes' = probes
              /\ wg' = wg
              /\ pc' = "links")]_vars
    /\ [](pc \in {"collect", "done"} =>
            /\ li = Len(links) + 1
            /\ Launched = Cardinality(ClassifiedHrefs(links))
            /\ Classified = Cardinality(ClassifiedHrefs(links))
            /\ result.InaccessibleLinks <= Cardinality(ClassifiedHrefs(links)))

\* an unparseable href followed by one that parses: the second is counted
\* and probed, the first is not
C13_Witness ==
    /\ pc = "done"
    /\ links = <<"%zz", "/internal">>
    /\ Classified = 1
    /\ Launched = 1
    /\ result.InaccessibleLinks = 0

(***************************************************************************)
(* C14: at every point of the walk and in the returned result every key of *)
(* Headings is one of H1..H6 and every value is at least 1.  A call of f   *)
(* on a node that is not an element h1..h6 (header, hgroup, hr, h0, h7,    *)
(* ...) leaves Headings as it is; on an element h1..h6 it adds one to the  *)
(* counter of that level.                                                  *)
(***************************************************************************)
HeadingKeys == {"H1", "H2", "H3", "H4", "H5", "H6"}
HeadingTags == {"h1", "h2", "h3", "h4", "h5", "h6"}

WellFormedHeadings(h) == DOMAIN h \subseteq HeadingKeys /\ \A k \in DOMAIN h : h[k] >= 1

IsHeadingElement(n) == n.Type = "Element" /\ n.Data \in HeadingTags

\* the value a Go map gives for key k
MapGet(m, k) == IF k \in DOMAIN m THEN m[k] ELSE 0

C14_HeadingsWellFormed ==
    /\ [](/\ WellFormedHeadings(result.Headings)
          /\ Len(retResult) = 1 => WellFormedHeadings(retResult[1].Headings))
    /\ [][(pc = "walk" /\ wi' = wi + 1) =>
            IF IsHeadingElement(lib.preorder[wi])
            THEN \A k \in HeadingKeys :
                    MapGet(result'.Headings, k) =
                        MapGet(result.Headings, k)
                        + (IF k = ToUpper(lib.preorder[wi].Data) THEN 1 ELSE 0)
            ELSE result'.Headings = result.Headings]_vars

\* a document with two h2 and with header, h7, hr, hgroup, h0 and h
C14_Witness ==
    /\ pc = "done"
    /\ retResult[1].Headings = [k \in {"H2"} |-> 2]
    /\ \E i \in 1..Len(lib.preorder) : lib.preorder[i].Data = "hgroup"
    /\ \E i \in 1..Len(lib.preorder) : lib.preorder[i].Data = "h7"

(***************************************************************************)
(* C15: when the document has no <a> with an href, or every raw href is    *)
(* empty or unparseable, countLinks starts no probe, does not block and    *)
(* leaves InternalLinks, ExternalLinks and InaccessibleLinks at 0.         *)
(***************************************************************************)
NoUsableHref == pc \in {"links", "collect", "done"} /\ ClassifiedHrefs(links) = {}

NoLinkCounted(r) == r.InternalLinks = 0 /\ r.ExternalLinks = 0 /\ r.InaccessibleLinks = 0

C15_NoLinksNoProbes ==
    /\ [](NoUsableHref =>
            /\ probes = EmptyBag
            /\ wg = 0
            /\ sem = 0
            /\ resultCh = <<>>
            /\ ~panicked
            /\ NoLinkCounted(result))
    /\ ((pc = "links" /\ NoUsableHref)
            ~> (pc = "done" /\ Len(retResult) = 1 /\ NoLinkCounted(retResult[1])))

\* an empty and an unparseable href, and nothing else
C15_Witness ==
    /\ pc = "done"
    /\ links = <<"", "%zz">>
    /\ Launched = 0
    /\ nread = 0
    /\ closed
    /\ NoLinkCounted(retResult[1])

(***************************************************************************)
(* Claims about AnalyzeHandler.                                            *)
(***************************************************************************)
\* the analysis has not been entered: no call, no GET, no probe
AnalysisUntouched ==
    /\ calls = 0
    /\ pc = "idle"
    /\ gets = 0
    /\ probes = EmptyBag
    /\ retResult = <<>>
    /\ retErr = <<>>

\* C16: a request whose method is not POST is answered with a redirect to
\* "/" with status 303 See Other, and AnalyzePage is not called for it.
C16_NonPostRedirected ==
    (hpc # "none" /\ method # "POST") =>
        /\ AnalysisUntouched
        /\ hpc \in {"start", "done"}
        /\ hpc = "done" => response = [status |-> 303, location |-> "/", data |-> <<>>]

C16_Witness ==
    /\ hpc = "done"
    /\ method = "post"
    /\ input # ""
    /\ response.status = 303

\* C17: a POST request whose form value url is empty is answered with the
\* page carrying the error "URL is required" and no result, and AnalyzePage
\* is not called for it.
C17_EmptyURLRequired ==
    (hpc # "none" /\ method = "POST" /\ input = "") =>
        /\ AnalysisUntouched
        /\ hpc \in {"start", "done"}
        /\ hpc = "done" =>
              response = [status |-> 200, location |-> "",
                          data |-> << [Result |-> <<>>, Error |-> "URL is required"] >>]

C17_Witness ==
    /\ hpc = "done"
    /\ method = "POST"
    /\ input = ""
    /\ response.data # <<>>

\* the seven fields of the analysis result
ResultFields ==
    {"HTMLVersion", "Title", "Headings", "InternalLinks", "ExternalLinks",
     "InaccessibleLinks", "LoginForm"}

\* C18: for a POST request with a non-empty url AnalyzePage is called exactly
\* once, and the rendered PageData holds exactly one of the two: when
\* AnalyzePage returned an error, Error is that error's message and Result is
\* nil; otherwise Error is empty and Result carries all seven fields of the
\* analysis result unchanged.
C18_PostRendersAnalysis ==
    (hpc # "none" /\ method = "POST" /\ input # "") =>
        /\ calls = (IF hpc = "start" THEN 0 ELSE 1)
        /\ hpc = "done" =>
            /\ pc \in {"done", "failed"}
            /\ response.status = 200
            /\ Len(response.data) = 1
            /\ IF retErr # <<>>
               THEN /\ response.data[1].Error = ErrorText(retErr[1])
                    /\ response.data[1].Error # ""
                    /\ response.data[1].Result = <<>>
               ELSE /\ response.data[1].Error = ""
                    /\ Len(response.data[1].Result) = 1
                    /\ DOMAIN response.data[1].Result[1] = ResultFields
                    /\ \A f \in ResultFields :
                          response.data[1].Result[1][f] = retResult[1][f]

C18_Witness ==
    /\ hpc = "done"
    /\ method = "POST"
    /\ retErr = <<>>
    /\ pc = "done"
    /\ response.data[1].Result[1].LoginForm
    /\ response.data[1].Result[1].InternalLinks > 0

C18_ErrorWitness ==
    /\ hpc = "done"
    /\ method = "POST"
    /\ retErr # <<>>
    /\ response.data[1].Error = "HTTP error: 404 Not Found"

(***************************************************************************)
(* Claims about the normalization of the input.                            *)
(***************************************************************************)
\* s begins with the seven characters http:// or the eight characters https://
StartsWithScheme(s) ==
    \/ Len(s) >= 7 /\ SubSeq(s, 1, 7) = "http://"
    \/ Len(s) >= 8 /\ SubSeq(s, 1, 8) = "https://"

\* C19: before validation the input is prefixed with "https://" exactly when
\* it starts with neither "http://" nor "https://"; an input that starts
\* with one of the two is left unchanged, so that normalizing the normalized
\* input changes nothing.
C19_NormalizePrefixesOnce ==
    pc \notin {"idle", "validate"} =>
        /\ StartsWithScheme(input) => rawURL = input
        /\ ~StartsWithScheme(input) => rawURL = "https://" \o input
        /\ StartsWithScheme(rawURL)
        /\ normalize(rawURL) = rawURL

C19_Witness ==
    /\ pc = "fetch"
    /\ input = "example.com"
    /\ rawURL = "https://example.com"

C19_UnchangedWitness ==
    /\ pc = "fetch"
    /\ input = "http://example.com"
    /\ rawURL = input

(***************************************************************************)
(* Claims about the order of the phases of one analysis.                   *)
(***************************************************************************)
\* the probes whose goroutine has gone past its entry to the HEAD request
ProbesRequesting == { p \in BagToSet(probes) : p.pc \notin {"start", "acquired"} }

\* the loop of countLinks over the links has classified every link
ClassificationFinished == li > Len(links)

\* C20: the analysis passes through validating, fetching, parsing, walking,
\* resolving, checking and done in this order, each phase starting only
\* after the previous one has finished; in particular no probe is started
\* before the resolution and classification of the links is finished.
C20_NoProbeBeforeClassified ==
    (pc = "links" /\ ~ClassificationFinished) => ProbesRequesting = {}

\* the steps from one position of AnalyzePage to the next
PhaseSteps ==
    { <<"idle", "validate">>, <<"validate", "fetch">>, <<"fetch", "parse">>,
      <<"parse", "walk">>, <<"walk", "links">>, <<"links", "collect">>,
      <<"collect", "done">>,
      <<"validate", "failed">>, <<"fetch", "failed">>, <<"parse", "failed">> }

\* what does hold of the order: the positions follow one another as listed,
\* failed and done are left by no step, the walk is complete when countLinks
\* is entered, and no probe exists before countLinks
C20_PositionsInOrder ==
    /\ [][pc' # pc => <<pc, pc'>> \in PhaseSteps]_vars
    /\ [](pc \in {"links", "collect", "done"} => wi > Len(lib.preorder))
    /\ [](pc \in {"idle", "validate", "fetch", "parse", "walk", "failed"} => probes = EmptyBag)

C20_Witness ==
    /\ pc = "links"
    /\ ~ClassificationFinished
    /\ \E p \in BagToSet(probes) : p.pc = "flight"

(***************************************************************************)
(* Claims about the outcome of one probe.                                  *)
(***************************************************************************)
\* the outcome the rule gives for the probe of target t: false when the
\* request cannot be built, when Do returns an error, or when the status of
\* the response is 400 or more
OutcomeByRule(t) ==
    ~(\/ lib.newRequestFails[t]
      \/ lib.headResponse[t].err
      \/ lib.headResponse[t].StatusCode >= 400)

\* this step is probe p sending its outcome
ProbeSends(p) ==
    /\ p.pc \in {"start", "acquired", "flight"}
    /\ probes' = BagMove(probes, p, [p EXCEPT !.pc = "sent", !.sends = @ + 1])

\* C21: the outcome a probe sends is false if and only if the HEAD request
\* cannot be built, or the transport returns an error, or the status of the
\* response is >= 400, and true in every other case; each probe sends
\* exactly one outcome: none before it has its answer, one from then on, and
\* every probe has sent when countLinks has returned.
C21_OutcomeByRule ==
    /\ [][\A p \in BagToSet(probes) :
            ProbeSends(p) => resultCh' = Append(resultCh, OutcomeByRule(p.link))]_vars
    /\ [](\A p \in BagToSet(probes) :
            p.sends = (IF p.pc \in {"sent", "released", "done"} THEN 1 ELSE 0))
    /\ [](pc = "done" => \A p \in BagToSet(probes) : p.pc = "done")

\* the page with the links /bad (status 400) and //down.test/x (no response)
C21_Witness ==
    /\ pc = "done"
    /\ links = <<"/bad", "//down.test/x">>
    /\ result.InaccessibleLinks = 2

\* a status below 400 that is not 200: the link /moved (status 301) is reachable
C21_RedirectWitness ==
    /\ pc = "done"
    /\ links = <<"/moved">>
    /\ nread = 1
    /\ result.InaccessibleLinks = 0

C21_RequestNeverFails == \A t \in DOMAIN lib.newRequestFails : ~lib.newRequestFails[t]

(***************************************************************************)
(* Claims about who writes the result during the concurrent phase.         *)
(***************************************************************************)
\* this step is taken by a probe goroutine: no probe is added and one has
\* moved on
ProbeMoves == BagCardinality(probes') = BagCardinality(probes) /\ probes' # probes

\* this step is taken by the goroutine that closes resultCh
CloserMoves == closer # "none" /\ closer' # closer

\* this step is the range loop of countLinks receiving one outcome
ConsumerReceives ==
    /\ pc = "collect"
    /\ pc' = "collect"
    /\ resultCh # <<>>
    /\ resultCh' = Tail(resultCh)
    /\ nread' = nread + 1

\* C22: during the concurrent phase InaccessibleLinks is written only by
\* the one loop that drains resultCh, and only on an outcome false; a probe
\* goroutine (and the closing goroutine) writes no field of the result, so
\* that no step writes the tally but the consumer's.
C22_TallyWrittenByConsumerOnly ==
    /\ [][ProbeMoves \/ CloserMoves => result' = result]_vars
    /\ [][result'.InaccessibleLinks # result.InaccessibleLinks =>
            /\ ConsumerReceives
            /\ ~Head(resultCh)
            /\ ~ProbeMoves
            /\ ~CloserMoves]_vars

\* the tally has been written while a probe is still in flight
C22_Witness ==
    /\ pc = "collect"
    /\ result.InaccessibleLinks >= 1
    /\ InFlight >= 1

(***************************************************************************)
(* Claims about the number of probe goroutines.                            *)
(***************************************************************************)
\* the probe goroutines that exist: created by the go statement and not
\* yet returned, those blocked on the gate included
LiveProbes == ProbesAt({"start", "acquired", "flight", "sent", "released"})

\* C23: the number of probe tasks that exist at the same time, created and
\* not yet finished, those waiting for a slot of the gate included, is at
\* most the width of the gate, maxConcurrentRequests = 10, whatever the
\* number of links.
C23_LiveProbesBounded == LiveProbes <= maxConcurrentRequests

\* the version with the gate, one goroutine more than the gate is wide, all
\* slots taken and one goroutine blocked on the gate
C23_Witness ==
    /\ gated
    /\ LiveProbes = maxConcurrentRequests + 1
    /\ sem = maxConcurrentRequests
    /\ ProbesAt({"start"}) = 1

(***************************************************************************)
(* Claims about the login-form flag.                                       *)
(***************************************************************************)
\* n is an input element with an attribute whose key is type and whose
\* value is password
IsPasswordInput(n) ==
    /\ n.Type = "Element"
    /\ n.Data = "input"
    /\ \E j \in 1..Len(n.Attr) : n.Attr[j] = [Key |-> "type", Val |-> "password"]

\* the positions in the order of the walk of the password inputs
PasswordInputs == { i \in 1..Len(lib.preorder) : IsPasswordInput(lib.preorder[i]) }

\* the href attributes of the a elements of the document
HrefAttributes ==
    UNION { { <<i, j>> : j \in { k \in 1..Len(lib.preorder[i].Attr) :
                                    lib.preorder[i].Attr[k].Key = "href" } } :
            i \in { n \in 1..Len(lib.preorder) :
                      lib.preorder[n].Type = "Element" /\ lib.preorder[n].Data = "a" } }

HeadingElements == { i \in 1..Len(lib.preorder) : IsHeadingElement(lib.preorder[i]) }

HeadingTotal(h) ==
    MapGet(h, "H1") + MapGet(h, "H2") + MapGet(h, "H3")
    + MapGet(h, "H4") + MapGet(h, "H5") + MapGet(h, "H6")

\* C24: the login-form flag only goes from false to true and is never
\* reset; the walk does not stop when it is set: every node is visited and
\* the headings and links that come after a password input are collected;
\* at the end of the walk the flag is true if and only if some input element
\* of the document has the attribute pair (type, password).
C24_LoginFormAccumulates ==
    /\ [][result.LoginForm => result'.LoginForm]_vars
    /\ [](pc = "walk" =>
            (result.LoginForm <=> \E i \in PasswordInputs : i < wi))
    /\ [](pc \in {"links", "collect", "done"} =>
            /\ wi = Len(lib.preorder) + 1
            /\ result.LoginForm <=> PasswordInputs # {}
            /\ Len(links) = Cardinality(HrefAttributes)
            /\ HeadingTotal(result.Headings) = Cardinality(HeadingElements))
    /\ [](pc = "done" => (retResult[1].LoginForm <=> PasswordInputs # {}))

\* a password input between two text inputs, followed by h3, a link and a title
C24_Witness ==
    /\ pc = "done"
    /\ retResult[1].LoginForm
    /\ retResult[1].Headings = [k \in {"H3"} |-> 1]
    /\ retResult[1].Title = "Late"
    /\ links = <<"/internal">>

\* type=password on a button, type=PASSWORD and name=password do not count
C24_NoLoginWitness ==
    /\ pc = "done"
    /\ ~retResult[1].LoginForm
    /\ \E i \in 1..Len(lib.preorder) : lib.preorder[i].Data = "button"

(***************************************************************************)
(* Claims about analyses that run at the same time.                        *)
(***************************************************************************)
\* the result of the analysis a (its arguments and the tables of its
\* library calls) when it runs alone: the sequential computation of C6
AloneResult(a) ==
    LET w   == WalkAll(NewResult, <<>>, a.lib.preorder)
        cl  == { l \in Range(w[2]) : l # "" /\ ~a.lib.parseFails[l] }
        int == { l \in cl : a.lib.linkURL[l].Host = a.lib.requestURI.Host }
        bad == { l \in cl :
                   \/ a.lib.newRequestFails[a.lib.linkURL[l].String]
                   \/ a.lib.headResponse[a.lib.linkURL[l].String].err
                   \/ a.lib.headResponse[a.lib.linkURL[l].String].StatusCode >= 400 }
    IN  [w[1] EXCEPT !.HTMLVersion = detectHTMLVersion(version, a.doc),
                     !.InternalLinks = Cardinality(int),
                     !.ExternalLinks = Cardinality(cl \ int),
                     !.InaccessibleLinks = Cardinality(bad)]

\* the analysis a has returned what it returns alone, or has not returned
ReturnsAsAlone(a) == a.pc = "done" => a.retResult = <<AloneResult(a)>>

\* what a countLinks in progress owns is consistent with its own links only
OwnLinkState(a) ==
    /\ a.seen \subseteq Range(a.links)
    /\ a.sem <= BagCardinality(a.probes)
    /\ BagCardinality(a.probes) <= Cardinality(a.seen)
    /\ a.result.InternalLinks + a.result.ExternalLinks <= Cardinality(a.seen)

\* C25: two analyses that run at the same time are independent: each has
\* its own gate, result channel, seen map and result, a step of one leaves
\* the state of the other as it is, and under every interleaving of their
\* steps each returns the result it returns when it runs alone on the same
\* document with the same answers to its probes.
C25_ConcurrentAnalysesIndependent ==
    /\ [](ReturnsAsAlone(AnalysisState) /\ OwnLinkState(AnalysisState))
    /\ [](parked # <<>> => ReturnsAsAlone(parked[1]) /\ OwnLinkState(parked[1]))
    /\ [][cur' = cur => parked' = parked]_vars
    /\ [][cur' # cur => parked' = <<AnalysisState>> /\ AnalysisState' = parked[1]]_vars

\* both analyses have returned, after steps of the second one were taken
\* while the first was checking its links
C25_Witness ==
    /\ parked # <<>>
    /\ pc = "done"
    /\ parked[1].pc = "done"
    /\ parked[1].hpc = "done"
    /\ retResult[1].InternalLinks = 1
    /\ retResult[1].InaccessibleLinks = 1
    /\ parked[1].retResult[1].InternalLinks = 2
    /\ parked[1].retResult[1].InaccessibleLinks = 2

\* both are in the loop of countLinks at once, each with probes of its own
C25_BothCheckingWitness ==
    /\ parked # <<>>
    /\ pc = "collect"
    /\ parked[1].pc = "links"
    /\ InFlight >= 1
    /\ BagCardinality(parked[1].probes) >= 1
    /\ seen # parked[1].seen

(***************************************************************************)
(* Claims about the closing of the result channel.                         *)
(***************************************************************************)
\* every probe goroutine that was launched has sent its outcome
AllProbesSent == \A p \in BagToSet(probes) : p.sends = 1

\* C26: resultCh is closed exactly once, and only after the loop over the
\* links has ended and every launched probe has sent its outcome; no probe
\* ever sends on the closed channel, and the consumer loop does not end
\* while an outcome is still to be sent.
C26_ClosedOnceAfterAllSent ==
    /\ [](~panicked)
    /\ [](closed <=> closer = "done")
    /\ [](closed => AllProbesSent /\ ClassificationFinished /\ wg = 0)
    /\ [](pc = "done" => closed /\ AllProbesSent /\ resultCh = <<>> /\ nread = Launched)
    /\ [][closed => closed']_vars
    /\ [][closed' # closed => closer = "close" /\ closer' = "done" /\ resultCh' = resultCh]_vars

\* the channel is closed while outcomes are still buffered in it
C26_Witness ==
    /\ pc = "collect"
    /\ closed
    /\ Launched >= 2
    /\ Len(resultCh) = Launched
    /\ ~panicked

(***************************************************************************)
(* Claims about the slots of the gate.                                     *)
(***************************************************************************)
\* the probe goroutines between sem <- struct{}{} and <-sem
HoldingSlot == ProbesAt({"acquired", "flight", "sent"})

\* this step is wg.Done() of a probe goroutine
ProbeReturns(p) == probes' = BagMove(probes, p, [p EXCEPT !.pc = "done"])

\* C27: every slot of the gate that a probe acquires is released on each of
\* its exit paths, and before the probe is counted as done: the slots held
\* are exactly those of the probes between acquisition and release, their
\* number is between 0 and maxConcurrentRequests, and it is 0 when
\* countLinks has returned.
C27_SlotsReleased ==
    /\ [](0 <= sem /\ sem <= maxConcurrentRequests)
    /\ [](sem = (IF gated THEN HoldingSlot ELSE 0))
    /\ [](pc = "done" => sem = 0)
    /\ [][\A p \in BagToSet(probes) :
            (gated /\ p.pc # "done" /\ ProbeReturns(p)) =>
                p.pc = "released" /\ wg' = wg - 1 /\ sem' = sem]_vars

\* a probe that failed and a probe that succeeded have both given back
\* their slot and have not yet called wg.Done()
C27_Witness ==
    /\ gated
    /\ pc = "collect"
    /\ sem = 0
    /\ wg = 2
    /\ \E p \in BagToSet(probes) : p.pc = "released" /\ ~OutcomeByRule(p.link)
    /\ \E p \in BagToSet(probes) : p.pc = "released" /\ OutcomeByRule(p.link)

\* all slots of the gate are taken
C27_FullGateWitness == gated /\ sem = maxConcurrentRequests /\ HoldingSlot = maxConcurrentRequests

(***************************************************************************)
(* Claims about what countLinks changes of the result.                     *)
(***************************************************************************)
\* the fields of the result that the walk and detectHTMLVersion set
WalkFields == {"Title", "Headings", "LoginForm", "HTMLVersion"}

\* countLinks is running
InCountLinks == pc \in {"links", "collect"}

\* countLinks has been entered and has not yet looked at a link
AtEntry == pc = "links" /\ li = 1

\* the result as it is when countLinks is entered
ResultAtEntry ==
    [WalkAll(NewResult, <<>>, lib.preorder)[1]
        EXCEPT !.HTMLVersion = detectHTMLVersion(version, doc)]

\* C28: countLinks changes only InternalLinks, ExternalLinks and
\* InaccessibleLinks: Title, Headings, LoginForm and HTMLVersion are after
\* the link phase what they were before it, and InternalLinks and
\* ExternalLinks are not changed any more once the last link is classified.
C28_CountLinksFrame ==
    /\ [][InCountLinks => \A f \in WalkFields : result'[f] = result[f]]_vars
    /\ [][(InCountLinks /\ ClassificationFinished) =>
            /\ result'.InternalLinks = result.InternalLinks
            /\ result'.ExternalLinks = result.ExternalLinks]_vars
    /\ []((AtEntry \/ pc = "done") =>
            \A f \in WalkFields : result[f] = ResultAtEntry[f])
    /\ [](pc = "done" => retResult = <<result>>)

\* the page of TestRealAnalyzePage after the link phase
C28_Witness ==
    /\ pc = "done"
    /\ retResult[1].Title = "Test Page"
    /\ retResult[1].LoginForm
    /\ retResult[1].Headings = [k \in {"H1", "H2"} |-> 1]
    /\ retResult[1].InternalLinks = 1
    /\ retResult[1].ExternalLinks = 1
    /\ retResult[1].InaccessibleLinks = 1

====
